---- MODULE Spec2Model ----
(***************************************************************************)
(* Model of the storefront Lambda handlers of src/index.js: health,        *)
(* getProducts and createOrder, with the module-level connection pool and  *)
(* cached database configuration they share.                               *)
(*                                                                         *)
(* An invocation is an async function: it runs atomically from one await   *)
(* to the next, so every action below is one such segment.  The secret     *)
(* store, the pool factory and the database are collaborators whose every  *)
(* call may succeed or raise.                                              *)
(***************************************************************************)
EXTENDS Integers, Sequences, FiniteSets, TLC

\* ------------------------------------------------------------------ bounds
MaxItems == 2      \* longest cart
MaxInv   == 2      \* invocations per process lifetime
NumSlots == 2      \* invocations that may be in flight together (SpecConc)

Slots == 1..NumSlots

\* The product ids a cart may name.
ProductIds == {1, 2}

\* ------------------------------------------------------- JavaScript values
\* A JS value is a tagged record; v is the payload of bool (0/1), num and of
\* str (the decimal string of v).  estr is the empty string.
Undef   == [t |-> "undef", v |-> 0]
Null    == [t |-> "null",  v |-> 0]
EStr    == [t |-> "estr",  v |-> 0]
Bool(b) == [t |-> "bool",  v |-> IF b THEN 1 ELSE 0]
Num(n)  == [t |-> "num",   v |-> n]
Str(n)  == [t |-> "str",   v |-> n]
Omitted == [t |-> "omitted", v |-> 0]

\* ToBoolean: undefined, null, "", false and 0 are falsy; a non-empty string
\* is truthy whatever it spells.
Truthy(x) ==
  CASE x.t = "undef" -> FALSE
    [] x.t = "null"  -> FALSE
    [] x.t = "estr"  -> FALSE
    [] x.t = "bool"  -> x.v = 1
    [] x.t = "num"   -> x.v # 0
    [] OTHER         -> TRUE

\* Number(x) on the values above (undefined, whose Number is NaN, is never
\* passed: see resolveQuantity and priceMapOf).
Number(x) ==
  CASE x.t = "null" -> 0
    [] x.t = "estr" -> 0
    [] OTHER        -> x.v

\* ------------------------------------------------------------ request body
NoItems == [kind |-> "missing", elems |-> <<>>]

QuantityValues ==
  {Undef, Null, Bool(FALSE), EStr, Num(0), Num(-1), Num(2), Str(3)}

ProductIdValues == {Undef} \cup {Num(i) : i \in ProductIds}

\* A cart element: JSON null, or an object with optional productId/quantity.
NullItem == [isNull |-> TRUE, productId |-> Undef, quantity |-> Undef]

CartItems ==
  {NullItem} \cup
  {[isNull |-> FALSE, productId |-> p, quantity |-> q] :
      p \in ProductIdValues, q \in QuantityValues}

Carts(items) == UNION {[1..n -> items] : n \in 0..MaxItems}

\* event.body: absent, "", text that is not JSON, or JSON text of the given
\* top-level kind; a JSON object carries its items field.
BodyOf(kind) == [kind |-> kind, items |-> NoItems]

Bodies(items) ==
  {BodyOf(k) : k \in {"absent", "empty", "garbage", "jnull", "jscalar",
                      "jarray", "jobject"}}
  \cup {[kind |-> "jobject", items |-> [kind |-> "nonarray", elems |-> <<>>]]}
  \cup {[kind |-> "jobject", items |-> [kind |-> "array", elems |-> c]] :
          c \in Carts(items)}

\* Inputs of the concurrent specification: one-element carts, default quantity.
SmallItems ==
  {[isNull |-> FALSE, productId |-> Num(i), quantity |-> Undef] : i \in ProductIds}

AllBodies == Bodies(CartItems)

SmallBodies == Bodies(SmallItems)

\* ---------------------------------------------------------------- catalog
\* products.price as the driver returns it: a number, a DECIMAL string, NULL.
RowPrice(i) == IF i = 1 THEN Num(5) ELSE Str(3)

\* The products table holds any of the ids, or product 1 with a NULL price.
Catalogs ==
  {[i \in S |-> RowPrice(i)] : S \in SUBSET ProductIds}
  \cup {[i \in {1} |-> Null]}

\* ------------------------------------------------- createOrder, pure parts
\* !event.body
bodyMissing(body) == body.kind \in {"absent", "empty"}

\* JSON.parse(event.body) throws
parseThrows(body) == body.kind = "garbage"

\* payload.items throws a TypeError: the payload is the JSON value null
itemsThrows(body) == body.kind = "jnull"

\* payload.items: the field of an object; undefined on a scalar or an array
payloadItems(body) == IF body.kind = "jobject" THEN body.items ELSE NoItems

\* !Array.isArray(items) || items.length === 0
cartEmpty(items) == items.kind # "array" \/ Len(items.elems) = 0

\* The synchronous head of createOrder, up to `await getPool()`.
validate(body) ==
  IF bodyMissing(body) THEN "EMPTY_BODY"
  ELSE IF parseThrows(body) THEN "INVALID_JSON"
  ELSE IF itemsThrows(body) THEN "THROW"
  ELSE IF cartEmpty(payloadItems(body)) THEN "EMPTY_CART"
  ELSE "PASS"

\* items.map(i => i.productId) throws a TypeError on a null element
idsThrows(elems) == \E i \in 1..Len(elems) : elems[i].isNull

idsOf(elems) == [i \in 1..Len(elems) |-> elems[i].productId]

\* SELECT id, price FROM products WHERE id IN (ids): the rows that exist
catalogLookup(cat, ids) ==
  {[id |-> i, price |-> cat[i]] :
     i \in {j \in DOMAIN cat : \E k \in 1..Len(ids) : ids[k] = Num(j)}}

\* new Map(products.map(p => [p.id, Number(p.price)]))
priceMapOf(rows) ==
  [i \in {r.id : r \in rows} |->
     Number((CHOOSE r \in rows : r.id = i).price)]

\* priceMap.get(item.productId)
mapGet(priceMap, productId) ==
  IF productId.t = "num" /\ productId.v \in DOMAIN priceMap
  THEN Num(priceMap[productId.v]) ELSE Undef

\* (variant) price === null: an undefined price passes the check
isNullishStrict(x) == x.t = "null"

\* price == null
isNullish(x) == x.t \in {"undef", "null"}

\* (variant) item.quantity ?? 1: only an absent or null quantity defaults
resolveQuantityNullish(item) ==
  IF item.quantity.t \in {"undef", "null"} THEN 1 ELSE Number(item.quantity)

\* item.quantity ? Number(item.quantity) : 1
resolveQuantity(item) ==
  IF Truthy(item.quantity) THEN Number(item.quantity) ELSE 1

\* (variant) a product already priced earlier in the cart is skipped
RECURSIVE orderLoopDedup(_, _, _, _)
orderLoopDedup(elems, priceMap, i, total) ==
  IF i > Len(elems)
  THEN [missing |-> FALSE, at |-> Len(elems), productId |-> Undef, total |-> total]
  ELSE LET qty   == resolveQuantity(elems[i])
           price == mapGet(priceMap, elems[i].productId)
           seen  == \E j \in 1..(i - 1) : elems[j].productId = elems[i].productId
       IN IF isNullish(price)
          THEN [missing |-> TRUE, at |-> i,
                productId |-> elems[i].productId, total |-> total]
          ELSE orderLoopDedup(elems, priceMap, i + 1,
                              IF seen THEN total ELSE total + price.v * qty)

\* The for-of loop over the cart from element i with the running total:
\* it returns at the first element without a price.
RECURSIVE orderLoop(_, _, _, _)
orderLoop(elems, priceMap, i, total) ==
  IF i > Len(elems)
  THEN [missing |-> FALSE, at |-> Len(elems), productId |-> Undef, total |-> total]
  ELSE LET qty   == resolveQuantity(elems[i])
           price == mapGet(priceMap, elems[i].productId)
       IN IF isNullish(price)
          THEN [missing |-> TRUE, at |-> i,
                productId |-> elems[i].productId, total |-> total]
          ELSE orderLoop(elems, priceMap, i + 1, total + price.v * qty)

\* ---------------------------------------------------------------- response
NoBody == [error |-> "none", status |-> "none", productId |-> Undef,
           total |-> Undef, rows |-> {}]

\* JSON.stringify drops the keys whose value is undefined
JSONStringify(body) ==
  [body EXCEPT !.productId = IF @ = Undef THEN Omitted ELSE @,
               !.total     = IF @ = Undef THEN Omitted ELSE @]

response(statusCode, body) ==
  [statusCode |-> statusCode, body |-> JSONStringify(body)]

errorBody(code) == [NoBody EXCEPT !.error = code]

NoResponse == [statusCode |-> 0, body |-> JSONStringify(NoBody)]

\* ------------------------------------------------------------------- state
VARIABLES
  secretArn,      \* process.env.DB_SECRET_ARN is set
  catalog,        \* the products table: id -> price
  cachedConfig,   \* module-level cachedConfig: 0 unset, k the config built
                  \* from the k-th secret fetch
  pool,           \* module-level pool: 0 unset, k the k-th pool created
  secretFetches,  \* getSecretValue calls issued so far
  poolsCreated,   \* mysql.createPool calls that returned a pool
  usedPools,      \* the pools a query was issued on
  invocations,    \* handler invocations started so far
  inv             \* per slot, the invocation running in it

vars == <<secretArn, catalog, cachedConfig, pool, secretFetches, poolsCreated,
          usedPools, invocations, inv>>

shared == <<cachedConfig, pool, secretFetches, poolsCreated, usedPools>>

\* An invocation's locals.  queries is the list of statements it issued;
\* examined is how many cart elements the pricing loop looked at; err is the
\* error its catch block caught.
Idle ==
  [pc |-> "idle", handler |-> "none", body |-> BodyOf("absent"),
   fetchNo |-> 0, newPool |-> 0, myPool |-> 0, queries |-> <<>>,
   examined |-> 0, total |-> 0, resp |-> NoResponse, err |-> "none"]

SelectPrices(ids) == [sql |-> "SELECT_PRICES", ids |-> ids, total |-> 0]
InsertOrder(total) == [sql |-> "INSERT_ORDER", ids |-> <<>>, total |-> total]
SelectAll == [sql |-> "SELECT_ALL", ids |-> <<>>, total |-> 0]

\* return response(...) from a handler
finish(l, resp) == [l EXCEPT !.pc = "done", !.resp = resp]

\* catch (err) { return response(500, { error: "DB_ERROR" }) }
catchError(l, cause) ==
  [finish(l, response(500, errorBody("DB_ERROR"))) EXCEPT !.err = cause]

\* A reply of the secret store: a rejection, or a secret with some fields.
SecretReplies ==
  {[rejected |-> TRUE, host |-> FALSE, username |-> FALSE, password |-> FALSE]}
  \cup [rejected : {FALSE}, host : BOOLEAN, username : BOOLEAN,
        password : BOOLEAN]

\* !host || !user || !password
secretInvalid(r) == ~r.host \/ ~r.username \/ ~r.password

Init ==
  /\ secretArn \in BOOLEAN
  /\ catalog \in Catalogs
  /\ cachedConfig = 0
  /\ pool = 0
  /\ secretFetches = 0
  /\ poolsCreated = 0
  /\ usedPools = {}
  /\ invocations = 0
  /\ inv = [s \in Slots |-> Idle]

\* ----------------------------------------------------- getPool / getDbConfig
\* `await getPool()` entered by invocation l: getPool and getDbConfig run
\* synchronously to their first await (or to the throw of line 15).
enterGetPool(l) ==
  IF pool # 0 THEN [l EXCEPT !.pc = "awaitPool", !.myPool = pool]
  ELSE IF cachedConfig # 0 THEN [l EXCEPT !.pc = "awaitConfig"]
  ELSE IF ~secretArn THEN catchError(l, "config")
  ELSE [l EXCEPT !.pc = "awaitSecret", !.fetchNo = secretFetches + 1]

\* The shared state after that entry: a secret fetch is issued or nothing.
enterGetPoolShared(l) ==
  /\ secretFetches' =
       IF enterGetPool(l).pc = "awaitSecret" THEN secretFetches + 1
       ELSE secretFetches
  /\ UNCHANGED <<cachedConfig, pool, poolsCreated, usedPools>>

canInvoke(s) ==
  /\ inv[s].pc = "idle"
  /\ invocations < MaxInv

\* exports.health
health(s) ==
  /\ canInvoke(s)
  /\ invocations' = invocations + 1
  /\ inv' = [inv EXCEPT ![s] =
       finish([Idle EXCEPT !.handler = "health"],
              response(200, [NoBody EXCEPT !.status = "ok"]))]
  /\ UNCHANGED <<secretArn, catalog, shared>>

\* exports.getProducts, to `await getPool()`
getProducts(s) ==
  /\ canInvoke(s)
  /\ invocations' = invocations + 1
  /\ LET l == [Idle EXCEPT !.handler = "getProducts"]
     IN /\ inv' = [inv EXCEPT ![s] = enterGetPool(l)]
        /\ enterGetPoolShared(l)
  /\ UNCHANGED <<secretArn, catalog>>

\* exports.createOrder on an event.body of bodies, to its first return or to
\* `await getPool()`
createOrder(s, bodies) ==
  /\ canInvoke(s)
  /\ invocations' = invocations + 1
  /\ \E body \in bodies :
     LET l == [Idle EXCEPT !.handler = "createOrder", !.body = body]
         v == validate(body)
     IN IF v = "PASS"
        THEN /\ inv' = [inv EXCEPT ![s] = enterGetPool(l)]
             /\ enterGetPoolShared(l)
        ELSE /\ inv' = [inv EXCEPT ![s] =
                  IF v = "THROW" THEN catchError(l, "TypeError")
                  ELSE finish(l, response(400, errorBody(v)))]
             /\ UNCHANGED shared
  /\ UNCHANGED <<secretArn, catalog>>

\* (variant) cachedConfig assigned before the check of line 35
configAfterEager(r, n) ==
  IF r.rejected THEN cachedConfig ELSE n

\* cachedConfig after getDbConfig handled the reply r to fetch number n:
\* assigned only past the check of line 35.
configAfter(r, n) ==
  IF r.rejected \/ secretInvalid(r) THEN cachedConfig ELSE n

\* getDbConfig resumes from `await secretsManager.getSecretValue().promise()`
getDbConfigResume(s) ==
  /\ inv[s].pc = "awaitSecret"
  /\ \E r \in SecretReplies :
       /\ cachedConfig' = configAfter(r, inv[s].fetchNo)
       /\ inv' = [inv EXCEPT ![s] =
            IF r.rejected THEN catchError(@, "secret")
            ELSE IF secretInvalid(r) THEN catchError(@, "config")
            ELSE [@ EXCEPT !.pc = "awaitConfig"]]
  /\ UNCHANGED <<secretArn, catalog, pool, secretFetches, poolsCreated,
                 usedPools, invocations>>

\* getPool resumes from `await getDbConfig()` and calls mysql.createPool
getPoolCreate(s) ==
  /\ inv[s].pc = "awaitConfig"
  /\ \E raised \in BOOLEAN :
       IF raised
       THEN /\ inv' = [inv EXCEPT ![s] = catchError(@, "createPool")]
            /\ UNCHANGED poolsCreated
       ELSE /\ poolsCreated' = poolsCreated + 1
            /\ inv' = [inv EXCEPT ![s].pc = "awaitCreate",
                                  ![s].newPool = poolsCreated + 1]
  /\ UNCHANGED <<secretArn, catalog, cachedConfig, pool, secretFetches,
                 usedPools, invocations>>

\* getPool resumes from `await mysql.createPool()`: pool = ...; return pool
getPoolAssign(s) ==
  /\ inv[s].pc = "awaitCreate"
  /\ pool' = inv[s].newPool
  /\ inv' = [inv EXCEPT ![s].pc = "awaitPool", ![s].myPool = inv[s].newPool]
  /\ UNCHANGED <<secretArn, catalog, cachedConfig, secretFetches,
                 poolsCreated, usedPools, invocations>>

\* ------------------------------------------------- handlers after getPool
\* createOrder resumes from `await getPool()`: ids, then the catalog query
createOrderLookup(s) ==
  /\ inv[s].pc = "awaitPool"
  /\ inv[s].handler = "createOrder"
  /\ LET elems == payloadItems(inv[s].body).elems
     IN IF idsThrows(elems)
        THEN /\ inv' = [inv EXCEPT ![s] = catchError(@, "TypeError")]
             /\ UNCHANGED usedPools
        ELSE /\ inv' = [inv EXCEPT
                  ![s].pc = "awaitLookup",
                  ![s].queries = Append(@, SelectPrices(idsOf(elems)))]
             /\ usedPools' = usedPools \cup {inv[s].myPool}
  /\ UNCHANGED <<secretArn, catalog, cachedConfig, pool, secretFetches,
                 poolsCreated, invocations>>

\* (variant) the order is inserted before the missing product is reported
pricedAlwaysInsert(l, r) ==
  IF r.missing
  THEN finish([l EXCEPT !.examined = r.at,
                        !.queries = Append(@, InsertOrder(r.total))],
              response(400, [errorBody("PRODUCT_NOT_FOUND") EXCEPT
                               !.productId = r.productId]))
  ELSE [l EXCEPT !.pc = "awaitInsert",
                 !.examined = r.at,
                 !.total = r.total,
                 !.queries = Append(@, InsertOrder(r.total))]

\* (variant) the prices are queried again before the INSERT
pricedRequery(l, r) ==
  IF r.missing
  THEN finish([l EXCEPT !.examined = r.at],
              response(400, [errorBody("PRODUCT_NOT_FOUND") EXCEPT
                               !.productId = r.productId]))
  ELSE [l EXCEPT !.pc = "awaitInsert",
                 !.examined = r.at,
                 !.total = r.total,
                 !.queries = @ \o <<l.queries[1], InsertOrder(r.total)>>]

\* Lines 127-140 on the pricing loop's result r: the 400 of a missing product,
\* or the INSERT of the total.
priced(l, r) ==
  IF r.missing
  THEN finish([l EXCEPT !.examined = r.at],
              response(400, [errorBody("PRODUCT_NOT_FOUND") EXCEPT
                               !.productId = r.productId]))
  ELSE [l EXCEPT !.pc = "awaitInsert",
                 !.examined = r.at,
                 !.total = r.total,
                 !.queries = Append(@, InsertOrder(r.total))]

\* createOrder resumes from the catalog query: price map, pricing loop, then
\* the 400 of a missing product or the INSERT
createOrderPrice(s) ==
  /\ inv[s].pc = "awaitLookup"
  /\ \E raised \in BOOLEAN :
       IF raised
       THEN inv' = [inv EXCEPT ![s] = catchError(@, "query")]
       ELSE LET elems    == payloadItems(inv[s].body).elems
                products == catalogLookup(catalog, idsOf(elems))
                r        == orderLoop(elems, priceMapOf(products), 1, 0)
            IN inv' = [inv EXCEPT ![s] = priced(@, r)]
  /\ UNCHANGED <<secretArn, catalog, shared, invocations>>

\* createOrder resumes from the INSERT
createOrderDone(s) ==
  /\ inv[s].pc = "awaitInsert"
  /\ \E raised \in BOOLEAN :
       IF raised
       THEN inv' = [inv EXCEPT ![s] = catchError(@, "query")]
       ELSE inv' = [inv EXCEPT ![s] =
              finish(@, response(201,
                [NoBody EXCEPT !.status = "ok", !.total = Num(inv[s].total)]))]
  /\ UNCHANGED <<secretArn, catalog, shared, invocations>>

\* getProducts resumes from `await getPool()` and issues its query
getProductsQuery(s) ==
  /\ inv[s].pc = "awaitPool"
  /\ inv[s].handler = "getProducts"
  /\ inv' = [inv EXCEPT ![s].pc = "awaitList",
                        ![s].queries = Append(@, SelectAll)]
  /\ usedPools' = usedPools \cup {inv[s].myPool}
  /\ UNCHANGED <<secretArn, catalog, cachedConfig, pool, secretFetches,
                 poolsCreated, invocations>>

\* getProducts resumes from its query
getProductsDone(s) ==
  /\ inv[s].pc = "awaitList"
  /\ \E raised \in BOOLEAN :
       IF raised
       THEN inv' = [inv EXCEPT ![s] = catchError(@, "query")]
       ELSE inv' = [inv EXCEPT ![s] =
              finish(@, response(200,
                [NoBody EXCEPT !.rows =
                   {[id |-> i, price |-> catalog[i]] : i \in DOMAIN catalog}]))]
  /\ UNCHANGED <<secretArn, catalog, shared, invocations>>

\* The promise a handler returned has resolved: the runtime takes the
\* response and the invocation's locals are gone.
deliver(s) ==
  /\ inv[s].pc = "done"
  /\ inv' = [inv EXCEPT ![s] = Idle]
  /\ UNCHANGED <<secretArn, catalog, shared, invocations>>

\* ----------------------------------------------------------- specifications
\* One invocation at a time (a Lambda container serves one event at a time),
\* on every request body.
Next ==
  \E s \in {1} :
    \/ health(s)
    \/ getProducts(s)
    \/ createOrder(s, AllBodies)
    \/ getDbConfigResume(s)
    \/ getPoolCreate(s)
    \/ getPoolAssign(s)
    \/ createOrderLookup(s)
    \/ createOrderPrice(s)
    \/ createOrderDone(s)
    \/ getProductsQuery(s)
    \/ getProductsDone(s)
    \/ deliver(s)

Spec == Init /\ [][Next]_vars

\* Invocations interleaved in one process, each suspended at its awaits.
NextConc ==
  \E s \in Slots :
    \/ health(s)
    \/ getProducts(s)
    \/ createOrder(s, SmallBodies)
    \/ getDbConfigResume(s)
    \/ getPoolCreate(s)
    \/ getPoolAssign(s)
    \/ createOrderLookup(s)
    \/ createOrderPrice(s)
    \/ createOrderDone(s)
    \/ getProductsQuery(s)
    \/ getProductsDone(s)
    \/ deliver(s)

SpecConc == Init /\ [][NextConc]_vars

\* ------------------------------------------------------------- properties
\* What the properties say about an invocation l, stated on the request and
\* the products table alone.
IsOrder(l) == l.handler = "createOrder"

Returned(l) == l.pc = "done"

Status(l) == l.resp.statusCode

ErrorCode(l) == l.resp.body.error

Cart(l) == l.body.items.elems

\* the body is JSON text of an object whose items is a non-empty array
HasCart(l) ==
  /\ l.body.kind = "jobject"
  /\ l.body.items.kind = "array"
  /\ Len(Cart(l)) >= 1

\* the products table has a row for the item's productId
Resolves(item) ==
  /\ ~item.isNull
  /\ item.productId.t = "num"
  /\ item.productId.v \in DOMAIN catalog

AllResolve(l) == \A i \in 1..Len(Cart(l)) : Resolves(Cart(l)[i])

\* the price column as a number
ListedPrice(id) == IF catalog[id].t = "null" THEN 0 ELSE catalog[id].v

FalsyQuantities == {Undef, Null, Bool(FALSE), EStr, Num(0)}

ExpectedQuantity(q) == IF q \in FalsyQuantities THEN 1 ELSE q.v

LineAmount(item) ==
  ListedPrice(item.productId.v) * ExpectedQuantity(item.quantity)

RECURSIVE ExpectedTotal(_)
ExpectedTotal(cart) ==
  IF cart = <<>> THEN 0
  ELSE ExpectedTotal(SubSeq(cart, 1, Len(cart) - 1)) + LineAmount(cart[Len(cart)])

Issued(l, sql) == {i \in 1..Len(l.queries) : l.queries[i].sql = sql}

Is400(l, code) ==
  /\ Status(l) = 400
  /\ ErrorCode(l) = code

\* the catch block caught a failure of a collaborator
CollaboratorFailed(l) == l.err \in {"config", "secret", "createPool", "query"}

DbError == [statusCode |-> 500,
            body |-> [error |-> "DB_ERROR", status |-> "none",
                      productId |-> Omitted, total |-> Omitted, rows |-> {}]]

\* C1: a createOrder call on a non-empty cart whose every productId has a
\* row, with no collaborator failing, answers 201 with total equal to the sum
\* over the cart, element by element, of price * resolved quantity; an id
\* named twice is added twice.
C1_TotalIsSum ==
  \A s \in Slots :
    LET l == inv[s]
    IN (IsOrder(l) /\ Returned(l) /\ HasCart(l) /\ AllResolve(l)
          /\ ~CollaboratorFailed(l))
       => /\ Status(l) = 201
          /\ l.resp.body.status = "ok"
          /\ l.resp.body.total = Num(ExpectedTotal(Cart(l)))

\* a 201 on a cart naming product 1 twice, once with quantity 2: 5 + 10
C1_Witness ==
  \E s \in Slots :
    /\ IsOrder(inv[s]) /\ Returned(inv[s]) /\ HasCart(inv[s])
    /\ catalog = [i \in {1} |-> Num(5)]
    /\ Cart(inv[s]) =
         <<[isNull |-> FALSE, productId |-> Num(1), quantity |-> Undef],
           [isNull |-> FALSE, productId |-> Num(1), quantity |-> Num(2)]>>
    /\ Status(inv[s]) = 201
    /\ inv[s].resp.body.total = Num(15)

\* C2: a createOrder call that returns 201 issued exactly one INSERT, whose
\* total_amount is the total it returns; one that returns 400 issued none.
C2_OneWritePerOrder ==
  \A s \in Slots :
    LET l == inv[s]
    IN (IsOrder(l) /\ Returned(l))
       => /\ Status(l) = 201 =>
               /\ Cardinality(Issued(l, "INSERT_ORDER")) = 1
               /\ \A i \in Issued(l, "INSERT_ORDER") :
                    Num(l.queries[i].total) = l.resp.body.total
          /\ Status(l) = 400 => Issued(l, "INSERT_ORDER") = {}

\* a 201 whose one INSERT carries the returned, non-zero total
C2_Witness ==
  \E s \in Slots :
    /\ IsOrder(inv[s]) /\ Returned(inv[s])
    /\ Status(inv[s]) = 201
    /\ Cardinality(Issued(inv[s], "INSERT_ORDER")) = 1
    /\ inv[s].queries[2].total = 8
    /\ inv[s].resp.body.total = Num(8)

\* C3 (as claimed): createOrder checks in order and stops at the first
\* failure: no body gives EMPTY_BODY; else text that is not JSON gives
\* INVALID_JSON; else a missing, non-array or empty items gives EMPTY_CART;
\* PRODUCT_NOT_FOUND and 201 come only after the three checks passed.
C3_ChecksInOrder ==
  \A s \in Slots :
    LET l == inv[s]
    IN (IsOrder(l) /\ Returned(l))
       => /\ l.body.kind \in {"absent", "empty"} => Is400(l, "EMPTY_BODY")
          /\ l.body.kind = "garbage" => Is400(l, "INVALID_JSON")
          /\ (l.body.kind \in {"jnull", "jscalar", "jarray", "jobject"}
                /\ ~HasCart(l)) => Is400(l, "EMPTY_CART")
          /\ (Status(l) = 201 \/ ErrorCode(l) = "PRODUCT_NOT_FOUND")
                => HasCart(l)

\* C4 (as claimed): a non-empty body that does not parse to an object (text
\* that is not JSON, JSON null, a JSON number or string) gives 400
\* INVALID_JSON.
C4_NonObjectIsInvalidJson ==
  \A s \in Slots :
    LET l == inv[s]
    IN (IsOrder(l) /\ Returned(l)
          /\ l.body.kind \in {"garbage", "jnull", "jscalar"})
       => Is400(l, "INVALID_JSON")

\* C5 (as claimed): a call on a cart, or a product listing, returns 500 if
\* and only if a collaborator failed, and the 500 body is {error: DB_ERROR}
\* alone.
C5_500OnlyOnCollaboratorFailure ==
  \A s \in Slots :
    LET l == inv[s]
    IN (Returned(l) /\ (l.handler = "getProducts" \/ (IsOrder(l) /\ HasCart(l))))
       => /\ Status(l) = 500 <=> CollaboratorFailed(l)
          /\ Status(l) = 500 => l.resp = DbError

\* C6 (as claimed): however invocations interleave, at most one pool is
\* ever created and every query goes to that one pool.
C6_OnePool ==
  /\ poolsCreated <= 1
  /\ Cardinality(usedPools) <= 1

\* C7: a createOrder call issues the catalog query at most once, never when
\* it ends with EMPTY_BODY, INVALID_JSON or EMPTY_CART, and every INSERT it
\* issues comes after its catalog query.
C7_LookupOnceBeforeInsert ==
  \A s \in Slots :
    LET l == inv[s]
    IN IsOrder(l)
       => /\ Cardinality(Issued(l, "SELECT_PRICES")) <= 1
          /\ (Returned(l)
                /\ ErrorCode(l) \in {"EMPTY_BODY", "INVALID_JSON", "EMPTY_CART"})
               => l.queries = <<>>
          /\ \A j \in Issued(l, "INSERT_ORDER") :
               \E i \in Issued(l, "SELECT_PRICES") : i < j

\* a call that issued the catalog query and then the INSERT, and returned
C7_Witness ==
  \E s \in Slots :
    /\ IsOrder(inv[s]) /\ Returned(inv[s])
    /\ Len(inv[s].queries) = 2
    /\ inv[s].queries[1].sql = "SELECT_PRICES"
    /\ inv[s].queries[2].sql = "INSERT_ORDER"

\* the catalog query of l has returned
LookupReturned(l) ==
  \/ l.pc = "awaitInsert"
  \/ Returned(l) /\ HasCart(l) /\ l.err = "none"
  \/ Returned(l) /\ Issued(l, "INSERT_ORDER") # {}

FirstMissing(cart) ==
  CHOOSE i \in 1..Len(cart) :
    /\ ~Resolves(cart[i])
    /\ \A j \in 1..(i - 1) : Resolves(cart[j])

\* C8: once the catalog query has returned, a cart with an item that has no
\* row gives 400 PRODUCT_NOT_FOUND with the productId of the first such item,
\* the loop stops at that item and no INSERT is issued; a cart whose items
\* all have a row never gives PRODUCT_NOT_FOUND.
C8_FirstMissingProduct ==
  \A s \in Slots :
    LET l == inv[s]
    IN (IsOrder(l) /\ LookupReturned(l))
       => IF AllResolve(l)
          THEN ErrorCode(l) # "PRODUCT_NOT_FOUND"
          ELSE LET item == Cart(l)[FirstMissing(Cart(l))]
               IN /\ Returned(l)
                  /\ Is400(l, "PRODUCT_NOT_FOUND")
                  /\ l.resp.body.productId =
                       IF item.productId = Undef THEN Omitted ELSE item.productId
                  /\ l.examined = FirstMissing(Cart(l))
                  /\ Issued(l, "INSERT_ORDER") = {}

\* a cart of two products without a row: the first one is reported and the
\* second is not examined
C8_Witness ==
  \E s \in Slots :
    /\ IsOrder(inv[s]) /\ Returned(inv[s]) /\ HasCart(inv[s])
    /\ Len(Cart(inv[s])) = 2
    /\ Cart(inv[s])[1].productId = Num(2)
    /\ Cart(inv[s])[2].productId = Num(1)
    /\ DOMAIN catalog = {}
    /\ Is400(inv[s], "PRODUCT_NOT_FOUND")
    /\ inv[s].resp.body.productId = Num(2)
    /\ inv[s].examined = 1

\* C9: on a one-item cart that is ordered, the total is the price times 1
\* when quantity is absent, null, false, "" or 0, and the price times the
\* number the quantity spells otherwise, be it negative.
C9_QuantityDefault ==
  \A s \in Slots :
    LET l == inv[s]
    IN (IsOrder(l) /\ Returned(l) /\ Status(l) = 201 /\ Len(Cart(l)) = 1)
       => LET q == Cart(l)[1].quantity
              p == ListedPrice(Cart(l)[1].productId.v)
              t == l.resp.body.total
          IN /\ q \in {Undef, Null, Bool(FALSE), EStr, Num(0)} => t = Num(p)
             /\ q \in {Num(-1), Num(2), Str(3)} => t = Num(p * q.v)
             /\ (q = Num(-1) /\ p > 0) => t.v < 0

\* an order of one item with quantity 0 of the product priced 5: total 5
C9_Witness ==
  \E s \in Slots :
    /\ IsOrder(inv[s]) /\ Returned(inv[s]) /\ Status(inv[s]) = 201
    /\ Len(Cart(inv[s])) = 1
    /\ Cart(inv[s])[1].quantity = Num(0)
    /\ Cart(inv[s])[1].productId = Num(1)
    /\ catalog[1] = Num(5)
    /\ inv[s].resp.body.total = Num(5)

\* the invocation l has to reach the database
NeedsPool(l) == l.handler = "getProducts" \/ (IsOrder(l) /\ HasCart(l))

\* a failed configuration resolution leaves nothing set and answers 500;
\* health answers 200 {status: ok} whatever the state
C10_FailureLeavesUnset ==
  \A s \in Slots :
    LET l == inv[s]
    IN /\ (Returned(l) /\ l.err \in {"config", "secret"})
            => /\ cachedConfig = 0
               /\ pool = 0
               /\ l.resp = DbError
       /\ (Returned(l) /\ l.handler = "health")
            => /\ Status(l) = 200
               /\ l.resp.body.status = "ok"
               /\ l.err = "none"

\* an invocation that needs the database and finds no configuration and no
\* pool resolves the configuration anew, whatever happened before
C10_Reattempt ==
  \A s \in Slots :
    (inv[s].pc = "idle" /\ inv'[s].pc # "idle" /\ NeedsPool(inv'[s])
       /\ cachedConfig = 0 /\ pool = 0)
    => IF secretArn
       THEN /\ inv'[s].pc = "awaitSecret"
            /\ secretFetches' = secretFetches + 1
       ELSE /\ Returned(inv'[s])
            /\ inv'[s].err = "config"

\* C10: a failed configuration resolution (no DB_SECRET_ARN, the fetch
\* raising, a secret without host, username or password) leaves cachedConfig
\* and pool unset and answers 500 DB_ERROR; it is not latched, the next
\* invocation resolves again; health answers 200 {status: ok} in every state.
C10_ConfigFailureNotLatched ==
  /\ []C10_FailureLeavesUnset
  /\ [][C10_Reattempt]_vars

\* an order answered 201 on the configuration of the second secret fetch,
\* the first fetch having failed
C10_Witness ==
  \E s \in Slots :
    /\ secretFetches = 2
    /\ cachedConfig = 2
    /\ IsOrder(inv[s]) /\ Returned(inv[s]) /\ Status(inv[s]) = 201

====
